---- MODULE Spec2Model ----
(***************************************************************************)
(* Company onboarding workflow of the Botivate HR frontend:                *)
(*   OnboardingPage (two-step form, src/frontend/src/pages/OnboardingPage) *)
(*   OAuthCallbackPage (src/unnamed/part_003)                              *)
(*   LoginPage "Register here" (src/frontend/src/pages/LoginPage.jsx)      *)
(* and the five-step onboarding wizard (src/unnamed/part_002), which is    *)
(* a page of its own with its own specification, WizardSpec.               *)
(* The approvals list of the HR dashboard, ApprovalsPanel                  *)
(* (src/unnamed/part_001), has its own specification, ApprovalsSpec.       *)
(* The browser's localStorage is the session store; the React component    *)
(* state is volatile and is lost on every unmount.  Every await of an      *)
(* async handler is a point where other events may interleave, so an       *)
(* invocation that awaits a response is a record in `inflight`.            *)
(***************************************************************************)
EXTENDS Naturals, Sequences, FiniteSets

\* ---------------------------------------------------------------- bounds
MaxCalls == 2         \* register / provision requests counted per session
MaxInflight == 2      \* handler invocations awaiting a response at once
MaxPolicies == 2      \* text policy entries of the wizard
MaxDocs == 2          \* document files chosen in the wizard
MaxDecisions == 3     \* decisions made in the approvals list

\* ---------------------------------------------------------------- values
NULL == "null"

\* ids the backend hands out; they are only ever compared for equality, so
\* the model names a new id with the first name the browser holds nowhere
CompanyIds == <<"C1", "C2", "C3", "C4", "C5", "C6">>
DbIds == <<"D1", "D2", "D3", "D4">>

NameVals == {"", "Acme"}
EmailVals == {"", "a@acme.com"}
DbUrlVals == {"", "S1"}
PolicyTextVals == {"", " ", "P"}
CodeVals == {NULL, "", "X"}
ErrorVals == {NULL, "", "access_denied"}

\* useState initial value of formData
EmptyForm ==
    [companyName |-> "", contactEmail |-> "", dbUrl |-> "",
     policiesText |-> "", policyFile |-> NULL]

\* JavaScript truthiness of a string-or-null value
Truthy(v) == v # NULL /\ v # ""

\* String.prototype.trim on the modelled texts
Trim(t) == IF t = " " THEN "" ELSE t

\* a stored JSON text is the one-element sequence of the value it denotes;
\* the key is absent when the sequence is empty
NoItem == <<>>

\* JSON.stringify(formData): strings and null are written as they are, a File
\* object is written as {} (an empty object, which is truthy once parsed)
Stringify(form) ==
    <<[form EXCEPT !.policyFile = IF @ = NULL THEN NULL ELSE "{}"]>>

\* JSON.parse of a text written by Stringify
ParseForm(str) == str[1]

EmptyStore == [company |-> NULL, google |-> NULL, form |-> NoItem]

\* ----------------------------------------------- provisioning (backend side)
\* the employee records the backend resolves from the bound source
Employees == {"E1", "E2"}

\* provision(companyId, databaseId) of the backend: one credential is
\* generated for each employee record and one delivery is attempted for it;
\* the response carries the two counts and the failed deliveries
Provision(employees, undeliverable) ==
    [passwords_generated |-> Cardinality(employees),
     emails_sent |-> Cardinality(employees \ undeliverable),
     failures |-> employees \cap undeliverable]

\* the responses a provision call can return
ProvisionResults ==
    {Provision(e, u) : e \in SUBSET Employees, u \in SUBSET Employees}

\* --------------------------------------------- five-step wizard: the values
\* company_id of the logged-in user (useAuth), NULL when nobody is logged in:
\* the wizard is entered by a visitor who registers a new company
UserCompanyIds == {NULL}

TitleVals == {"", "T"}
ContentVals == {"", "P"}
SheetIdVals == {"", "S1"}

\* useState initial value of an entry of textPolicies (description is only
\* passed on to the request)
BlankPolicy == [title |-> "", content |-> ""]

\* no handler of the wizard is awaiting a response
\* (policies, files: what the loop of the handler has still to go through
\* once the request it awaits has returned; sent: the fields of the request)
NoCall ==
    [kind |-> "none", policies |-> <<>>, files |-> 0,
     companyId |-> "", dbId |-> "", sent |-> <<>>]

\* toast of the wizard: its kind and, for the provisioning success, the two
\* numbers it shows
WizardToast(kind) == [kind |-> kind, generated |-> 0, sent |-> 0]

\* ApprovalsPanel: the approval requests the backend holds, in the order it
\* lists them, and the lists GET /approvals/pending may return
RequestIds == <<"R1", "R2", "R3">>
PendingResponses == {SubSeq(RequestIds, 1, n) : n \in 0..Len(RequestIds)}
StatusVals == {"approved", "rejected"}

\* useState initial values of ApprovalsPanel (lines 7-8) with the request of
\* the mount effect (lines 26-28) in flight; `fetched` is the list that
\* request returned, `succeeded` the requests whose decision the backend
\* has accepted
ApprovalsMount ==
    [loading |-> TRUE,
     pendingRequests |-> <<>>,
     fetch |-> "pending",
     fetched |-> <<>>,
     calls |-> <<>>,
     succeeded |-> {},
     decisions |-> 0,
     toast |-> "none"]

\* useState initial values of the wizard (lines 28-55)
WizardMount(user) ==
    [user |-> user,
     step |-> 0,
     loading |-> FALSE,
     companyId |-> IF Truthy(user) THEN user ELSE "",
     registrationDone |-> FALSE,
     company |-> [name |-> "", hr_email |-> ""],
     textPolicies |-> <<BlankPolicy>>,
     docFiles |-> 0,
     dbConfig |-> [spreadsheet_id |-> ""],
     dbConnectionId |-> "",
     call |-> NoCall,
     toast |-> WizardToast("none")]

VARIABLES
    page,              \* route shown: "onboarding", "login", "google", "callback"
    localStorage,      \* botivate_onboarding_company / _google_connected / _form
    step,              \* OnboardingPage state
    formData,
    globalCompanyId,
    googleConnected,
    isLoading,
    inflight,          \* handleNext / handleSubmit invocations awaiting a response
    cb,                \* processOAuth of the callback page
    toast,             \* toast shown by the last step ("none" if it showed none)
    registered,        \* register requests of the current session that the
                       \* backend did not reject (accepted or unanswered)
    provIssued,        \* provision requests issued in the current session
    wizard,            \* state of the five-step wizard page (part_002)
    approvals          \* state of ApprovalsPanel (part_001) and its requests

compVars == <<step, formData, globalCompanyId, googleConnected, isLoading>>
backendVars == <<registered, provIssued>>
onboardingVars ==
    <<page, localStorage, step, formData, globalCompanyId, googleConnected,
      isLoading, inflight, cb, toast, registered, provIssued>>
vars == <<onboardingVars, wizard, approvals>>

\* the id of a company / database connection the backend has just created:
\* different from every id held in the store, in memory or by an invocation
HeldCompanyIds ==
    {localStorage.company, globalCompanyId, cb.company}
        \cup {inflight[i].gid : i \in DOMAIN inflight}

HeldDbIds == {inflight[i].dbId : i \in DOMAIN inflight}

First(ids, held) ==
    ids[CHOOSE k \in DOMAIN ids :
            /\ ids[k] \notin held
            /\ \A m \in 1..(k - 1) : ids[m] \in held]

NewCompanyId == First(CompanyIds, HeldCompanyIds)
NewDbId == First(DbIds, HeldDbIds)

NoCallback == [pc |-> "none", code |-> NULL, company |-> NULL]

\* ------------------------------------------------- OnboardingPage: mount
\* the restore effect (useEffect with [] dependencies)
RestoreTaken_NoFlag(store) == Truthy(store.company)
RestoreTaken_Always(store) == TRUE
RestoreTaken(store) == Truthy(store.company) /\ store.google = "true"

RestoredCompanyId_Lost(store) == NULL
RestoredCompanyId(store) == IF RestoreTaken(store) THEN store.company ELSE NULL

RestoredStep(store) == IF RestoreTaken(store) THEN 2 ELSE 1

RestoredForm(store) ==
    IF RestoreTaken(store) /\ store.form # NoItem THEN ParseForm(store.form)
    ELSE EmptyForm

\* a fresh OnboardingPage instance is rendered and its effect has run
MountOnboarding(store) ==
    /\ step' = RestoredStep(store)
    /\ formData' = RestoredForm(store)
    /\ globalCompanyId' = RestoredCompanyId(store)
    /\ googleConnected' = RestoreTaken(store)
    /\ isLoading' = FALSE

\* no OnboardingPage instance is rendered
UnmountOnboarding ==
    /\ step' = 1
    /\ formData' = EmptyForm
    /\ globalCompanyId' = NULL
    /\ googleConnected' = FALSE
    /\ isLoading' = FALSE

\* invocations of an unmounted instance go on running; their setState calls
\* have no effect any more
Orphaned(q) == [i \in DOMAIN q |-> [q[i] EXCEPT !.live = FALSE]]

\* the session keys were cleared: the invocations still running belong to a
\* session that is over
Closed(q) == [i \in DOMAIN q |-> [q[i] EXCEPT !.cur = FALSE]]

RemoveAt(q, i) == SubSeq(q, 1, i - 1) \o SubSeq(q, i + 1, Len(q))

Init ==
    /\ page = "onboarding"
    /\ localStorage = EmptyStore
    /\ step = 1
    /\ formData = EmptyForm
    /\ globalCompanyId = NULL
    /\ googleConnected = FALSE
    /\ isLoading = FALSE
    /\ inflight = <<>>
    /\ cb = NoCallback
    /\ toast = "none"
    /\ registered = 0
    /\ provIssued = 0
    /\ wizard = WizardMount(NULL)
    /\ approvals = ApprovalsMount

\* ------------------------------------------------ OnboardingPage: inputs
\* the profile inputs are rendered at step 1
TypeCompanyName(v) ==
    /\ page = "onboarding" /\ step = 1
    /\ formData' = [formData EXCEPT !.companyName = v]
    /\ toast' = "none"
    /\ UNCHANGED <<page, localStorage, step, globalCompanyId, googleConnected,
                   isLoading, inflight, cb, backendVars>>
    /\ UNCHANGED <<wizard, approvals>>

TypeContactEmail(v) ==
    /\ page = "onboarding" /\ step = 1
    /\ formData' = [formData EXCEPT !.contactEmail = v]
    /\ toast' = "none"
    /\ UNCHANGED <<page, localStorage, step, globalCompanyId, googleConnected,
                   isLoading, inflight, cb, backendVars>>
    /\ UNCHANGED <<wizard, approvals>>

\* the resource form is rendered at step 2 once googleConnected
ResourceFormRendered == page = "onboarding" /\ step = 2 /\ googleConnected

TypeDbUrl(v) ==
    /\ ResourceFormRendered
    /\ formData' = [formData EXCEPT !.dbUrl = v]
    /\ toast' = "none"
    /\ UNCHANGED <<page, localStorage, step, globalCompanyId, googleConnected,
                   isLoading, inflight, cb, backendVars>>
    /\ UNCHANGED <<wizard, approvals>>

TypePoliciesText(v) ==
    /\ ResourceFormRendered
    /\ formData' = [formData EXCEPT !.policiesText = v]
    /\ toast' = "none"
    /\ UNCHANGED <<page, localStorage, step, globalCompanyId, googleConnected,
                   isLoading, inflight, cb, backendVars>>
    /\ UNCHANGED <<wizard, approvals>>

ChoosePolicyFile ==
    /\ ResourceFormRendered
    /\ formData' = [formData EXCEPT !.policyFile = "File"]
    /\ toast' = "none"
    /\ UNCHANGED <<page, localStorage, step, globalCompanyId, googleConnected,
                   isLoading, inflight, cb, backendVars>>
    /\ UNCHANGED <<wizard, approvals>>

\* ------------------------------------------------ OnboardingPage: handleNext
\* the Next Step button: disabled={isLoading}
NextDisabled_Never == FALSE
NextDisabled == isLoading

ProfileIncomplete(form) ==
    ~Truthy(form.companyName) \/ ~Truthy(form.contactEmail)

\* the guard in front of the register call
MustRegister(gid) == ~Truthy(gid)

ClickNext ==
    /\ page = "onboarding" /\ step = 1
    /\ ~NextDisabled
    /\ IF step = 1 /\ ProfileIncomplete(formData)
       THEN /\ toast' = "required"
            /\ UNCHANGED <<step, isLoading, inflight, registered>>
       ELSE IF MustRegister(globalCompanyId)
       THEN /\ registered < MaxCalls
            /\ Len(inflight) < MaxInflight
            /\ isLoading' = TRUE
            /\ inflight' = Append(inflight,
                  [kind |-> "next", pc |-> "register", live |-> TRUE,
                   cur |-> TRUE, form |-> formData, gid |-> globalCompanyId,
                   dbId |-> NULL])
            /\ registered' = registered + 1
            /\ toast' = "none"
            /\ UNCHANGED step
       ELSE /\ step' = 2
            /\ toast' = "none"
            /\ UNCHANGED <<isLoading, inflight, registered>>
    /\ UNCHANGED <<page, localStorage, formData, globalCompanyId, googleConnected,
                   cb, provIssued>>
    /\ UNCHANGED <<wizard, approvals>>

\* lines 64-65: the new id and the form are written to the store
StoreRegistration_FormOnly(store, newCompanyId, form) ==
    [store EXCEPT !.form = Stringify(form)]
StoreRegistration(store, newCompanyId, form) ==
    [store EXCEPT !.company = newCompanyId, !.form = Stringify(form)]

\* lines 69-74: the catch block and finally of handleNext
RegisterCaught_Advances(inv) ==
    /\ toast' = "regfail"
    /\ registered' = IF inv.cur THEN registered - 1 ELSE registered
    /\ isLoading' = IF inv.live THEN FALSE ELSE isLoading
    /\ step' = IF inv.live THEN 2 ELSE step
    /\ UNCHANGED <<localStorage, globalCompanyId>>
RegisterCaught(inv) ==
    /\ toast' = "regfail"
    /\ registered' = IF inv.cur THEN registered - 1 ELSE registered
    /\ isLoading' = IF inv.live THEN FALSE ELSE isLoading
    /\ UNCHANGED <<localStorage, globalCompanyId, step>>

\* the register call returns: lines 61-68 on success, 69-74 on failure
RegisterResponse(i, ok) ==
    /\ i \in DOMAIN inflight
    /\ inflight[i].kind = "next"
    /\ LET inv == inflight[i] IN
       IF ok
       THEN /\ LET newCompanyId == NewCompanyId IN
               /\ localStorage' =
                     StoreRegistration(localStorage, newCompanyId, inv.form)
               /\ IF inv.live
                  THEN /\ globalCompanyId' = newCompanyId
                       /\ step' = 2
                       /\ isLoading' = FALSE
                  ELSE UNCHANGED <<globalCompanyId, step, isLoading>>
            /\ toast' = "none"
            /\ UNCHANGED registered
       ELSE RegisterCaught(inv)
    /\ inflight' = RemoveAt(inflight, i)
    /\ UNCHANGED <<page, formData, googleConnected, cb, provIssued>>
    /\ UNCHANGED <<wizard, approvals>>

\* ------------------------------------------- OnboardingPage: handleGoogleOAuth
\* leaving for the provider unloads the document: no invocation survives
ClickGoogle ==
    /\ page = "onboarding" /\ step = 2 /\ ~googleConnected
    /\ IF ~Truthy(globalCompanyId)
       THEN UNCHANGED <<page, localStorage, compVars, inflight>>
       ELSE /\ localStorage' = [localStorage EXCEPT !.form = Stringify(formData)]
            /\ page' = "google"
            /\ UnmountOnboarding
            /\ inflight' = <<>>
    /\ toast' = "none"
    /\ UNCHANGED <<cb, backendVars>>
    /\ UNCHANGED <<wizard, approvals>>

\* the Back button, rendered inside the resource form
ClickBack ==
    /\ ResourceFormRendered
    /\ step' = 1
    /\ toast' = "none"
    /\ UNCHANGED <<page, localStorage, formData, globalCompanyId, googleConnected,
                   isLoading, inflight, cb, backendVars>>
    /\ UNCHANGED <<wizard, approvals>>

\* ------------------------------------------------ OnboardingPage: handleSubmit
\* the calls of handleSubmit in the order of the code, and the condition in
\* front of each
Stages == <<"bind", "text", "doc", "prov">>
Done == Len(Stages) + 1

Needed(k, form, dbId) ==
    CASE k = 1 -> Truthy(form.dbUrl)
      [] k = 2 -> Truthy(Trim(form.policiesText))
      [] k = 3 -> form.policyFile # NULL
      [] k = 4 -> Truthy(dbId)

StageIndex(name) == CHOOSE k \in 1..Len(Stages) : Stages[k] = name

\* the first call after position k whose condition holds
StageAfter_FromStart(k, form, dbId) ==
    LET S == {j \in (1..Len(Stages)) \ {k} : Needed(j, form, dbId)} IN
    IF S = {} THEN Done ELSE CHOOSE j \in S : \A m \in S : j <= m
StageAfter(k, form, dbId) ==
    LET S == {j \in (k + 1)..Len(Stages) : Needed(j, form, dbId)} IN
    IF S = {} THEN Done ELSE CHOOSE j \in S : \A m \in S : j <= m

\* lines 151-158: the session keys are removed, success is reported and the
\* router leaves for /login, which unmounts the page
Finish(rest) ==
    /\ localStorage' = EmptyStore
    /\ toast' = "ready"
    /\ page' = "login"
    /\ UnmountOnboarding
    /\ inflight' = Closed(Orphaned(rest))
    /\ registered' = 0
    /\ provIssued' = 0

\* run the invocation from position k up to its next await, or to its end
Proceed(inv, k, rest, loading) ==
    LET next == StageAfter(k, inv.form, inv.dbId) IN
    IF next = Done
    THEN Finish(rest)
    ELSE /\ inflight' = Append(rest, [inv EXCEPT !.pc = Stages[next]])
         /\ provIssued' = IF Stages[next] = "prov" /\ inv.cur
                          THEN provIssued + 1
                          ELSE provIssued
         /\ isLoading' = loading
         /\ toast' = "none"
         /\ UNCHANGED <<page, localStorage, step, formData, globalCompanyId,
                        googleConnected, registered>>

\* the Finalize button: type="submit", disabled={isLoading}, inside the
\* resource form; the browser submits the form only when the required url
\* input (dbUrl) is filled
FinalizeDisabled_Never == FALSE
FinalizeDisabled == isLoading

\* what the closure of handleSubmit reads of formData: dbUrl, policiesText
\* and policyFile; the profile fields are not read
SubmitView(form) == [form EXCEPT !.companyName = "", !.contactEmail = ""]

FormValid_Unchecked(form) == TRUE
FormValid(form) == form.dbUrl # ""

ClickFinalize ==
    /\ ResourceFormRendered
    /\ ~FinalizeDisabled
    /\ FormValid(formData)
    /\ IF ~googleConnected
       THEN /\ toast' = "needgoogle"
            /\ UNCHANGED <<page, localStorage, compVars, inflight, registered,
                           provIssued>>
       ELSE /\ provIssued < MaxCalls
            /\ Len(inflight) < MaxInflight
            /\ Proceed([kind |-> "submit", pc |-> "start", live |-> TRUE,
                        cur |-> TRUE, form |-> SubmitView(formData),
                        gid |-> globalCompanyId, dbId |-> NULL],
                       0, inflight, TRUE)
    /\ UNCHANGED cb
    /\ UNCHANGED <<wizard, approvals>>

\* lines 147-149: what handleSubmit does with the response of the provision
\* call: provRes.data is logged, nothing of it is tested
ProvisionAccepted_FullOnly(data) == data.emails_sent = data.passwords_generated
ProvisionAccepted(data) == TRUE

\* lines 159-165: the catch block and finally
Caught_Retry(inv, rest) ==
    /\ toast' = "cfgfail"
    /\ inflight' = Append(rest, inv)
    /\ UNCHANGED <<page, localStorage, step, formData, globalCompanyId,
                   googleConnected, isLoading, registered, provIssued>>
Caught_ClearsKeys(inv, rest) ==
    /\ toast' = "cfgfail"
    /\ localStorage' = EmptyStore
    /\ isLoading' = IF inv.live THEN FALSE ELSE isLoading
    /\ inflight' = rest
    /\ UNCHANGED <<page, step, formData, globalCompanyId, googleConnected,
                   registered, provIssued>>
Caught(inv, rest) ==
    /\ toast' = "cfgfail"
    /\ isLoading' = IF inv.live THEN FALSE ELSE isLoading
    /\ inflight' = rest
    /\ UNCHANGED <<page, localStorage, step, formData, globalCompanyId,
                   googleConnected, registered, provIssued>>

\* a call of handleSubmit returns; a rejected call ends the invocation in the
\* catch block
SubmitResponse(i, ok) ==
    /\ i \in DOMAIN inflight
    /\ inflight[i].kind = "submit"
    /\ LET inv == inflight[i]
           rest == RemoveAt(inflight, i)
       IN
       IF ok
       THEN IF inv.pc = "bind"
            THEN Proceed([inv EXCEPT !.dbId = NewDbId],
                         StageIndex(inv.pc), rest, isLoading)
            ELSE IF inv.pc = "prov"
            THEN \E data \in ProvisionResults :
                    IF ProvisionAccepted(data)
                    THEN Proceed(inv, StageIndex(inv.pc), rest, isLoading)
                    ELSE Caught(inv, rest)
            ELSE Proceed(inv, StageIndex(inv.pc), rest, isLoading)
       ELSE Caught(inv, rest)
    /\ UNCHANGED cb
    /\ UNCHANGED <<wizard, approvals>>

\* ------------------------------------------------------------- navigation
\* the "Sign in" link of the onboarding page (client-side navigation)
GoToLogin ==
    /\ page = "onboarding"
    /\ page' = "login"
    /\ UnmountOnboarding
    /\ inflight' = Orphaned(inflight)
    /\ toast' = "none"
    /\ UNCHANGED <<localStorage, cb, backendVars>>
    /\ UNCHANGED <<wizard, approvals>>

\* LoginPage "Register here": the three keys are removed, then /onboarding
RegisterHere_KeepsCompany ==
    /\ page = "login"
    /\ localStorage' = [EmptyStore EXCEPT !.company = localStorage.company]
    /\ page' = "onboarding"
    /\ MountOnboarding(localStorage')
    /\ inflight' = Closed(inflight)
    /\ registered' = 0
    /\ provIssued' = 0
    /\ toast' = "none"
    /\ UNCHANGED cb
    /\ UNCHANGED <<wizard, approvals>>
RegisterHere ==
    /\ page = "login"
    /\ localStorage' = EmptyStore
    /\ page' = "onboarding"
    /\ MountOnboarding(EmptyStore)
    /\ inflight' = Closed(inflight)
    /\ registered' = 0
    /\ provIssued' = 0
    /\ toast' = "none"
    /\ UNCHANGED cb
    /\ UNCHANGED <<wizard, approvals>>

\* the document is loaded at /onboarding (reload, or the address is entered):
\* every running invocation and every toast is gone
LoadOnboarding ==
    /\ page' = "onboarding"
    /\ MountOnboarding(localStorage)
    /\ inflight' = <<>>
    /\ cb' = NoCallback
    /\ toast' = "none"
    /\ UNCHANGED <<localStorage, backendVars>>
    /\ UNCHANGED <<wizard, approvals>>

\* ------------------------------------------------------ OAuthCallbackPage
\* the checks of processOAuth in front of the exchange, in the order of the code
CallbackOutcome_NoErrorCheck(code, error, companyId) ==
    IF ~Truthy(code) THEN "nocode"
    ELSE IF ~Truthy(companyId) THEN "lostctx"
    ELSE "exchange"
CallbackOutcome_NoContextCheck(code, error, companyId) ==
    IF Truthy(error) THEN "denied"
    ELSE IF ~Truthy(code) THEN "nocode"
    ELSE "exchange"
CallbackOutcome_NoCodeCheck(code, error, companyId) ==
    IF Truthy(error) THEN "denied"
    ELSE IF ~Truthy(companyId) THEN "lostctx"
    ELSE "exchange"
CallbackOutcome(code, error, companyId) ==
    IF Truthy(error) THEN "denied"
    ELSE IF ~Truthy(code) THEN "nocode"
    ELSE IF ~Truthy(companyId) THEN "lostctx"
    ELSE "exchange"

\* the document is loaded at /oauth/callback with the given parameters and
\* processOAuth runs up to its await
ArriveCallback(code, error) ==
    LET outcome == CallbackOutcome(code, error, localStorage.company) IN
    /\ inflight' = <<>>
    /\ IF outcome = "exchange"
       THEN /\ page' = "callback"
            /\ cb' = [pc |-> "exchanging", code |-> code,
                      company |-> localStorage.company]
            /\ toast' = "connecting"
            /\ UnmountOnboarding
       ELSE /\ toast' = outcome
            /\ page' = "onboarding"
            /\ MountOnboarding(localStorage)
            /\ cb' = NoCallback
    /\ UNCHANGED <<localStorage, backendVars>>
    /\ UNCHANGED <<wizard, approvals>>

\* value of botivate_google_connected once the exchange has returned
GoogleFlag_Always(ok, old) == "true"
GoogleFlag(ok, old) == IF ok THEN "true" ELSE old

\* the exchange returns: lines 310-314 on success, 316-319 on failure
ExchangeResponse(ok) ==
    /\ page = "callback"
    /\ cb.pc = "exchanging"
    /\ toast' = IF ok THEN "connected" ELSE "exchfail"
    /\ localStorage' = [localStorage EXCEPT !.google = GoogleFlag(ok, @)]
    /\ page' = "onboarding"
    /\ MountOnboarding(localStorage')
    /\ cb' = NoCallback
    /\ UNCHANGED <<inflight, backendVars>>
    /\ UNCHANGED <<wizard, approvals>>

\* ------------------------------------------------------------ specification
Next ==
    \/ \E v \in NameVals : TypeCompanyName(v)
    \/ \E v \in EmailVals : TypeContactEmail(v)
    \/ \E v \in DbUrlVals : TypeDbUrl(v)
    \/ \E v \in PolicyTextVals : TypePoliciesText(v)
    \/ ChoosePolicyFile
    \/ ClickNext
    \/ \E i \in 1..MaxInflight, ok \in BOOLEAN : RegisterResponse(i, ok)
    \/ ClickGoogle
    \/ ClickBack
    \/ ClickFinalize
    \/ \E i \in 1..MaxInflight, ok \in BOOLEAN : SubmitResponse(i, ok)
    \/ GoToLogin
    \/ RegisterHere
    \/ LoadOnboarding
    \/ \E code \in CodeVals, error \in ErrorVals : ArriveCallback(code, error)
    \/ \E ok \in BOOLEAN : ExchangeResponse(ok)

Spec == Init /\ [][Next]_vars

\* =========================================================== five-step wizard
\* OnboardingPage of src/unnamed/part_002: Company Details (step 0), Text
\* Policies (1), Document Policies (2), Database (3), Provision (4).  Its
\* state is volatile and nothing of it is written to localStorage.
WizardNewCompanyId ==
    First(CompanyIds, {wizard.companyId, wizard.user, wizard.call.companyId})

WizardNewDbId == First(DbIds, {wizard.dbConnectionId, wizard.call.dbId})

\* Button of components/ui/Components.jsx: disabled={disabled || loading};
\* every handler button of the wizard is given loading={loading}
WizardButtonDisabled == wizard.loading

\* ---------------------------------------------------- step 0: Company Details
SetCompanyName(v) ==
    /\ wizard.step = 0
    /\ wizard' = [wizard EXCEPT !.company.name = v,
                                !.toast = WizardToast("none")]
    /\ UNCHANGED <<onboardingVars, approvals>>

SetCompanyHrEmail(v) ==
    /\ wizard.step = 0
    /\ wizard' = [wizard EXCEPT !.company.hr_email = v,
                                !.toast = WizardToast("none")]
    /\ UNCHANGED <<onboardingVars, approvals>>

\* lines 59-62: the register request is posted with the fields as they are
handleRegisterCompany ==
    /\ wizard.step = 0
    /\ ~WizardButtonDisabled
    /\ wizard' = [wizard EXCEPT
          !.loading = TRUE,
          !.call = [NoCall EXCEPT
                      !.kind = "register",
                      !.sent = <<wizard.company.name, wizard.company.hr_email>>],
          !.toast = WizardToast("none")]
    /\ UNCHANGED <<onboardingVars, approvals>>

\* lines 63-70
handleRegisterCompanyReturns(ok) ==
    /\ wizard.call.kind = "register"
    /\ wizard' =
          IF ok
          THEN [wizard EXCEPT !.companyId = WizardNewCompanyId,
                              !.toast = WizardToast("registered"),
                              !.step = 1,
                              !.loading = FALSE,
                              !.call = NoCall]
          ELSE [wizard EXCEPT !.toast = WizardToast("regfail"),
                              !.loading = FALSE,
                              !.call = NoCall]
    /\ UNCHANGED <<onboardingVars, approvals>>

\* ------------------------------------------------------ step 1: Text Policies
\* the array a running handleSaveTextPolicies iterates is the one of the
\* render of the click; its entries are the objects of the later arrays too
\* (updateTextPolicy writes into the object), `link` is the place the object
\* has in the current array, 0 once it was removed from it
Captured(textPolicies) ==
    [k \in DOMAIN textPolicies |->
        [link |-> k, title |-> textPolicies[k].title,
         content |-> textPolicies[k].content]]

Unlinked(policies, idx) ==
    [k \in DOMAIN policies |->
        [policies[k] EXCEPT !.link = IF @ = idx THEN 0
                                     ELSE IF @ > idx THEN @ - 1 ELSE @]]

Written(policies, idx, field, value) ==
    [k \in DOMAIN policies |->
        IF policies[k].link = idx
        THEN [policies[k] EXCEPT ![field] = value]
        ELSE policies[k]]

addTextPolicy ==
    /\ wizard.step = 1
    /\ Len(wizard.textPolicies) < MaxPolicies
    /\ wizard' = [wizard EXCEPT !.textPolicies = Append(@, BlankPolicy),
                                !.toast = WizardToast("none")]
    /\ UNCHANGED <<onboardingVars, approvals>>

\* the remove button is rendered when textPolicies.length > 1
removeTextPolicy(idx) ==
    /\ wizard.step = 1
    /\ Len(wizard.textPolicies) > 1
    /\ idx \in DOMAIN wizard.textPolicies
    /\ wizard' = [wizard EXCEPT
          !.textPolicies = RemoveAt(@, idx),
          !.call.policies = Unlinked(@, idx),
          !.toast = WizardToast("none")]
    /\ UNCHANGED <<onboardingVars, approvals>>

updateTextPolicy(idx, field, value) ==
    /\ wizard.step = 1
    /\ idx \in DOMAIN wizard.textPolicies
    /\ wizard' = [wizard EXCEPT
          !.textPolicies[idx][field] = value,
          !.call.policies = Written(@, idx, field, value),
          !.toast = WizardToast("none")]
    /\ UNCHANGED <<onboardingVars, approvals>>

\* line 93: the entries for which a request is made
Submitted_TitleOnly(policy) == Truthy(policy.title)
Submitted(policy) == Truthy(policy.title) /\ Truthy(policy.content)

\* the first of the entries for which a request is made, 0 if there is none
NextPolicy(policies) ==
    LET S == {j \in DOMAIN policies : Submitted(policies[j])} IN
    IF S = {} THEN 0 ELSE CHOOSE j \in S : \A m \in S : j <= m

\* lines 92-107: the loop over the entries `policies` up to its next await,
\* or to the end of the handler
SaveLoop(w, policies, companyId) ==
    LET k == NextPolicy(policies) IN
    IF k = 0
    THEN [w EXCEPT !.toast = WizardToast("saved"),
                   !.step = 2,
                   !.loading = FALSE,
                   !.call = NoCall]
    ELSE [w EXCEPT !.loading = TRUE,
                   !.call = [NoCall EXCEPT
                               !.kind = "text",
                               !.policies = SubSeq(policies, k + 1,
                                                   Len(policies)),
                               !.companyId = companyId,
                               !.sent = <<policies[k].title,
                                          policies[k].content>>],
                   !.toast = WizardToast("none")]

handleSaveTextPolicies ==
    /\ wizard.step = 1
    /\ ~WizardButtonDisabled
    /\ wizard' = SaveLoop(wizard, Captured(wizard.textPolicies),
                          wizard.companyId)
    /\ UNCHANGED <<onboardingVars, approvals>>

handleSaveTextPoliciesReturns(ok) ==
    /\ wizard.call.kind = "text"
    /\ wizard' =
          IF ok
          THEN SaveLoop(wizard, wizard.call.policies, wizard.call.companyId)
          ELSE [wizard EXCEPT !.toast = WizardToast("savefail"),
                              !.loading = FALSE,
                              !.call = NoCall]
    /\ UNCHANGED <<onboardingVars, approvals>>

\* -------------------------------------------------- step 2: Document Policies
\* the chosen files are only counted: nothing of a file is read but its name
handleFileChange(n) ==
    /\ wizard.step = 2
    /\ wizard.docFiles + n <= MaxDocs
    /\ wizard' = [wizard EXCEPT !.docFiles = @ + n,
                                !.toast = WizardToast("none")]
    /\ UNCHANGED <<onboardingVars, approvals>>

\* lines 120-132: the loop over `files` files up to its next await, or to
\* the end of the handler
UploadLoop(w, files, companyId) ==
    IF files = 0
    THEN [w EXCEPT !.toast = WizardToast("uploaded"),
                   !.step = 3,
                   !.loading = FALSE,
                   !.call = NoCall]
    ELSE [w EXCEPT !.loading = TRUE,
                   !.call = [NoCall EXCEPT
                               !.kind = "docs",
                               !.files = files - 1,
                               !.companyId = companyId],
                   !.toast = WizardToast("none")]

handleUploadDocs ==
    /\ wizard.step = 2
    /\ ~WizardButtonDisabled
    /\ wizard' = UploadLoop(wizard, wizard.docFiles, wizard.companyId)
    /\ UNCHANGED <<onboardingVars, approvals>>

handleUploadDocsReturns(ok) ==
    /\ wizard.call.kind = "docs"
    /\ wizard' =
          IF ok
          THEN UploadLoop(wizard, wizard.call.files, wizard.call.companyId)
          ELSE [wizard EXCEPT !.toast = WizardToast("uploadfail"),
                              !.loading = FALSE,
                              !.call = NoCall]
    /\ UNCHANGED <<onboardingVars, approvals>>

\* ----------------------------------------------------------- step 3: Database
SetSpreadsheetId(v) ==
    /\ wizard.step = 3
    /\ wizard' = [wizard EXCEPT !.dbConfig.spreadsheet_id = v,
                                !.toast = WizardToast("none")]
    /\ UNCHANGED <<onboardingVars, approvals>>

handleConnectDB ==
    /\ wizard.step = 3
    /\ ~WizardButtonDisabled
    /\ wizard' = [wizard EXCEPT
          !.loading = TRUE,
          !.call = [NoCall EXCEPT
                      !.kind = "db",
                      !.companyId = wizard.companyId,
                      !.sent = <<wizard.dbConfig.spreadsheet_id>>],
          !.toast = WizardToast("none")]
    /\ UNCHANGED <<onboardingVars, approvals>>

handleConnectDBReturns(ok) ==
    /\ wizard.call.kind = "db"
    /\ wizard' =
          IF ok
          THEN [wizard EXCEPT !.dbConnectionId = WizardNewDbId,
                              !.toast = WizardToast("connected"),
                              !.step = 4,
                              !.loading = FALSE,
                              !.call = NoCall]
          ELSE [wizard EXCEPT !.toast = WizardToast("connfail"),
                              !.loading = FALSE,
                              !.call = NoCall]
    /\ UNCHANGED <<onboardingVars, approvals>>

\* ---------------------------------------------------------- step 4: Provision
\* the button is rendered while !registrationDone
handleProvision ==
    /\ wizard.step = 4
    /\ ~wizard.registrationDone
    /\ ~WizardButtonDisabled
    /\ wizard' = [wizard EXCEPT
          !.loading = TRUE,
          !.call = [NoCall EXCEPT
                      !.kind = "provision",
                      !.companyId = wizard.companyId,
                      !.dbId = wizard.dbConnectionId],
          !.toast = WizardToast("none")]
    /\ UNCHANGED <<onboardingVars, approvals>>

\* lines 167-169: the numbers the success toast shows
ProvisionToast_Swapped(data) ==
    [kind |-> "provisioned", generated |-> data.emails_sent,
     sent |-> data.passwords_generated]
ProvisionToast(data) ==
    [kind |-> "provisioned", generated |-> data.passwords_generated,
     sent |-> data.emails_sent]

handleProvisionReturns(ok, data) ==
    /\ wizard.call.kind = "provision"
    /\ wizard' =
          IF ok
          THEN [wizard EXCEPT !.toast = ProvisionToast(data),
                              !.registrationDone = TRUE,
                              !.loading = FALSE,
                              !.call = NoCall]
          ELSE [wizard EXCEPT !.toast = WizardToast("provfail"),
                              !.loading = FALSE,
                              !.call = NoCall]
    /\ UNCHANGED <<onboardingVars, approvals>>

\* ----------------------------------------------------------------- navigation
\* the Back buttons of steps 1, 2 and 3: setStep(0), setStep(1), setStep(2)
WizardBack ==
    /\ wizard.step \in {1, 2, 3}
    /\ wizard' = [wizard EXCEPT !.step = @ - 1,
                                !.toast = WizardToast("none")]
    /\ UNCHANGED <<onboardingVars, approvals>>

\* the document is loaded again: the state and the running handler are gone
WizardReload ==
    /\ wizard' = WizardMount(wizard.user)
    /\ UNCHANGED <<onboardingVars, approvals>>

WizardInit ==
    /\ page = "onboarding"
    /\ localStorage = EmptyStore
    /\ step = 1
    /\ formData = EmptyForm
    /\ globalCompanyId = NULL
    /\ googleConnected = FALSE
    /\ isLoading = FALSE
    /\ inflight = <<>>
    /\ cb = NoCallback
    /\ toast = "none"
    /\ registered = 0
    /\ provIssued = 0
    /\ wizard \in {WizardMount(user) : user \in UserCompanyIds}
    /\ approvals = ApprovalsMount

WizardNext ==
    \/ \E v \in NameVals : SetCompanyName(v)
    \/ \E v \in EmailVals : SetCompanyHrEmail(v)
    \/ handleRegisterCompany
    \/ \E ok \in BOOLEAN : handleRegisterCompanyReturns(ok)
    \/ addTextPolicy
    \/ \E idx \in 1..MaxPolicies : removeTextPolicy(idx)
    \/ \E idx \in 1..MaxPolicies, v \in TitleVals :
          updateTextPolicy(idx, "title", v)
    \/ \E idx \in 1..MaxPolicies, v \in ContentVals :
          updateTextPolicy(idx, "content", v)
    \/ handleSaveTextPolicies
    \/ \E ok \in BOOLEAN : handleSaveTextPoliciesReturns(ok)
    \/ \E n \in 1..MaxDocs : handleFileChange(n)
    \/ handleUploadDocs
    \/ \E ok \in BOOLEAN : handleUploadDocsReturns(ok)
    \/ \E v \in SheetIdVals : SetSpreadsheetId(v)
    \/ handleConnectDB
    \/ \E ok \in BOOLEAN : handleConnectDBReturns(ok)
    \/ handleProvision
    \/ \E ok \in BOOLEAN, data \in ProvisionResults :
          handleProvisionReturns(ok, data)
    \/ WizardBack
    \/ WizardReload

WizardSpec == WizardInit /\ [][WizardNext]_vars

\* =========================================================== ApprovalsPanel
\* lines 11-24: the list request of the mount effect returns
fetchApprovalsReturns(ok, data) ==
    /\ approvals.fetch = "pending"
    /\ approvals' =
          IF ok
          THEN [approvals EXCEPT !.pendingRequests = data,
                                 !.fetched = data,
                                 !.fetch = "done",
                                 !.loading = FALSE,
                                 !.toast = "none"]
          ELSE [approvals EXCEPT !.fetch = "failed",
                                 !.loading = FALSE,
                                 !.toast = "loadfail"]
    /\ UNCHANGED <<onboardingVars, wizard>>

\* prev.filter(req => req.id !== id)
Without(requests, id) ==
    LET Keep(r) == r # id IN SelectSeq(requests, Keep)

\* the Approve and Reject buttons of a card are rendered for the requests
\* of the list, once it is loaded
DecisionButtonRendered(id) ==
    /\ ~approvals.loading
    /\ \E k \in DOMAIN approvals.pendingRequests :
          approvals.pendingRequests[k] = id

\* lines 30-39: the list of this render is copied, the request is removed
\* from the list and the decide request is posted
handleDecision(id, status) ==
    /\ DecisionButtonRendered(id)
    /\ approvals.decisions < MaxDecisions
    /\ approvals' = [approvals EXCEPT
          !.pendingRequests = Without(@, id),
          !.calls = Append(@, [id |-> id, status |-> status,
                               originalRequests |->
                                   approvals.pendingRequests]),
          !.decisions = @ + 1,
          !.toast = "none"]
    /\ UNCHANGED <<onboardingVars, wizard>>

\* line 48: what the list becomes when the decide request was rejected
Rollback(pendingRequests, call) == call.originalRequests

\* lines 40-49: the decide request returns
handleDecisionReturns(i, ok) ==
    /\ i \in DOMAIN approvals.calls
    /\ LET call == approvals.calls[i] IN
       approvals' =
          IF ok
          THEN [approvals EXCEPT
                  !.calls = RemoveAt(@, i),
                  !.succeeded = @ \cup {call.id},
                  !.toast = "decided"]
          ELSE [approvals EXCEPT
                  !.calls = RemoveAt(@, i),
                  !.pendingRequests = Rollback(@, call),
                  !.toast = "decidefail"]
    /\ UNCHANGED <<onboardingVars, wizard>>

ApprovalsInit ==
    /\ page = "onboarding"
    /\ localStorage = EmptyStore
    /\ step = 1
    /\ formData = EmptyForm
    /\ globalCompanyId = NULL
    /\ googleConnected = FALSE
    /\ isLoading = FALSE
    /\ inflight = <<>>
    /\ cb = NoCallback
    /\ toast = "none"
    /\ registered = 0
    /\ provIssued = 0
    /\ wizard = WizardMount(NULL)
    /\ approvals = ApprovalsMount

ApprovalsNext ==
    \/ \E ok \in BOOLEAN, data \in PendingResponses :
          fetchApprovalsReturns(ok, data)
    \/ \E k \in DOMAIN RequestIds, status \in StatusVals :
          handleDecision(RequestIds[k], status)
    \/ \E i \in 1..MaxDecisions, ok \in BOOLEAN :
          handleDecisionReturns(i, ok)

ApprovalsSpec == ApprovalsInit /\ [][ApprovalsNext]_vars

\* ------------------------------------------------------------------ claims
\* a step in which a fresh OnboardingPage instance is mounted
MountStep ==
    \/ LoadOnboarding
    \/ RegisterHere
    \/ \E code \in CodeVals, error \in ErrorVals :
          ArriveCallback(code, error) /\ page' = "onboarding"
    \/ \E ok \in BOOLEAN : ExchangeResponse(ok)

\* a step in which the code exchange request is issued
ExchangeIssued == page' = "callback" /\ cb'.pc = "exchanging"

\* C1: in every session at most one registerCompany request is issued
\* (a request the backend rejected, which the user then retries, is not
\* counted against the claim).
C1_RegisterAtMostOnce == registered <= 1

\* C2: mounting the onboarding page on a store that holds a companyId and
\* the granted flag yields step 2, the in-memory companyId equal to the
\* stored one, and the in-memory authorization flag set.
C2_ResumeYieldsConfiguring ==
    [][(MountStep /\ Truthy(localStorage'.company)
                  /\ localStorage'.google = "true")
        => (/\ step' = 2
            /\ globalCompanyId' = localStorage'.company
            /\ googleConnected')]_vars

C2_Witness ==
    /\ page = "onboarding" /\ toast = "connected"
    /\ step = 2 /\ googleConnected
    /\ globalCompanyId = localStorage.company

\* C3: a callback that carries an error indicator fails as denied: no
\* exchange request is issued and no session key changes (the companyId and
\* the granted flag are what they were).
C3_DeniedCallback ==
    [][\A code \in CodeVals, error \in ErrorVals :
          (ArriveCallback(code, error) /\ Truthy(error))
          => (/\ toast' = "denied"
              /\ ~ExchangeIssued
              /\ localStorage' = localStorage)]_vars

C3_Witness ==
    /\ page = "onboarding" /\ toast = "denied"
    /\ Truthy(localStorage.company)
    /\ localStorage.google # "true"

\* C4 as stated: every callback received while the store holds no companyId
\* fails with the missing-context error, whatever its parameters, issues no
\* exchange request and changes no session key.
C4_MissingContextAlways ==
    [][\A code \in CodeVals, error \in ErrorVals :
          (ArriveCallback(code, error) /\ ~Truthy(localStorage.company))
          => (/\ toast' = "lostctx"
              /\ ~ExchangeIssued
              /\ localStorage' = localStorage)]_vars

\* C4 amended: every callback received while the store holds no companyId
\* fails, issues no exchange request and changes no session key; the failure
\* is the missing-context error when the callback carries a code and no
\* error indicator, otherwise it is the denied or the missing-code error.
C4_MissingContextNoMutation ==
    [][\A code \in CodeVals, error \in ErrorVals :
          (ArriveCallback(code, error) /\ ~Truthy(localStorage.company))
          => (/\ toast' \in {"denied", "nocode", "lostctx"}
              /\ (Truthy(code) /\ ~Truthy(error)) <=> toast' = "lostctx"
              /\ Truthy(error) => toast' = "denied"
              /\ ~ExchangeIssued
              /\ localStorage' = localStorage)]_vars

C4_Witness ==
    /\ page = "onboarding" /\ toast = "lostctx"
    /\ localStorage = EmptyStore

\* C5: in every session at most one provisionCredentials request is issued.
C5_ProvisionAtMostOnce == provIssued <= 1

\* C6: no two invocations of the handlers of one page instance, and no two
\* invocations of one session, await a response at the same time; so two
\* overlapping invocations never issue two register or two provision requests.
C6_NoOverlappingAdvance ==
    \A i, j \in DOMAIN inflight :
        i # j => /\ ~(inflight[i].live /\ inflight[j].live)
                 /\ ~(inflight[i].cur /\ inflight[j].cur)

C6_Witness ==
    /\ page = "onboarding" /\ isLoading
    /\ \E i \in DOMAIN inflight :
          inflight[i].live /\ inflight[i].kind = "submit" /\ inflight[i].pc = "prov"

\* C7: once the store holds a companyId, no step replaces it with a
\* different one; it only disappears when the session keys are cleared.
C7_CompanyIdWrittenOnce ==
    [][(Truthy(localStorage.company) /\ Truthy(localStorage'.company))
        => localStorage'.company = localStorage.company]_vars

\* C8: after a denied callback the page is at the authorization step for
\* the stored company: step 2 with the stored companyId in memory, so that
\* the authorization can be started again without another register call.
C8_DeniedKeepsAwaitingAuthorization ==
    (page = "onboarding" /\ toast = "denied" /\ Truthy(localStorage.company))
    => (step = 2 /\ globalCompanyId = localStorage.company)

\* C9: the workflow completes (keys removed, success reported, /login shown)
\* only as the end of a finalize attempt that bound a database and whose
\* provisioning call returned.
C9_CompleteNeedsDatabase ==
    [][toast' = "ready"
        => \E i \in DOMAIN inflight :
              /\ SubmitResponse(i, TRUE)
              /\ inflight[i].pc = "prov"
              /\ Truthy(inflight[i].dbId)]_vars

C9_Witness ==
    /\ page = "login" /\ toast = "ready"
    /\ localStorage = EmptyStore

\* C10: the granted flag of the store becomes true only in the step in which
\* the exchange for the pending companyId is acknowledged, and the in-memory
\* flag becomes true only from a store whose flag is true.
C10_GrantedOnlyByExchange ==
    [][/\ (localStorage'.google = "true" /\ localStorage.google # "true")
          => (/\ ExchangeResponse(TRUE)
              /\ Truthy(cb.code)
              /\ Truthy(cb.company)
              /\ cb.company = localStorage.company
              /\ toast' = "connected")
       /\ (googleConnected' /\ ~googleConnected)
          => localStorage'.google = "true"]_vars

C10_Witness ==
    /\ localStorage.google = "true" /\ toast = "connected"
    /\ googleConnected

\* C11: an advance from the profile step with an empty company name or an
\* empty contact email is refused locally: no request is issued, the step
\* stays at the profile step and the session store is unchanged.  This is
\* stated for both profile forms: handleNext of the two-step page and
\* handleRegisterCompany of the wizard.
C11_EmptyProfileRefused ==
    [][/\ (ClickNext /\ ProfileIncomplete(formData))
          => (/\ toast' = "required"
              /\ inflight' = inflight
              /\ step' = 1
              /\ localStorage' = localStorage)
       /\ (/\ handleRegisterCompany
           /\ (~Truthy(wizard.company.name) \/ ~Truthy(wizard.company.hr_email)))
          => (/\ wizard'.call.kind = "none"
              /\ wizard'.step = 0)]_vars

\* the part of C11 that is about the two-step page
C11_TwoStepPageRefuses ==
    [][(ClickNext /\ ProfileIncomplete(formData))
        => (/\ toast' = "required"
            /\ inflight' = inflight
            /\ registered' = registered
            /\ step' = 1
            /\ localStorage' = localStorage)]_vars

C11_TwoStepPageWitness ==
    /\ page = "onboarding" /\ step = 1 /\ toast = "required"
    /\ formData.companyName = "Acme" /\ formData.contactEmail = ""

\* a step in which handleGoogleOAuth hands the browser to the provider
Redirected == ClickGoogle /\ page' = "google"

\* C12: when the redirect to the provider is performed the store holds the
\* companyId of the page and the snapshot of its current form fields (the
\* form read back from the store is the form of the page); the redirect is
\* never performed without a companyId; the snapshot is not touched while
\* the browser is at the provider or in the callback, and the form of the
\* page mounted after a successful exchange is the one read from it.
C12_PersistedBeforeRedirect ==
    [][/\ Redirected
          => (/\ Truthy(globalCompanyId)
              /\ localStorage'.company = globalCompanyId
              /\ localStorage'.form # NoItem
              /\ ParseForm(localStorage'.form) = formData)
       /\ (page \in {"google", "callback"} /\ page' \in {"google", "callback"})
          => (/\ localStorage'.form = localStorage.form
              /\ localStorage'.company = localStorage.company)
       /\ (ExchangeResponse(TRUE) /\ localStorage.form # NoItem)
          => formData' = ParseForm(localStorage.form)]_vars

\* what holds of every redirect: the store holds a companyId (the one the
\* callback will exchange the code for, not always the one of the page) and
\* the snapshot of the form of the page, which the page mounted after a
\* successful exchange reads back
C12_RedirectKeepsSnapshot ==
    [][/\ Redirected
          => (/\ Truthy(globalCompanyId)
              /\ Truthy(localStorage'.company)
              /\ localStorage'.form # NoItem
              /\ ParseForm(localStorage'.form) = formData)
       /\ (page \in {"google", "callback"} /\ page' \in {"google", "callback"})
          => (/\ localStorage'.form = localStorage.form
              /\ localStorage'.company = localStorage.company)
       /\ (ExchangeResponse(TRUE) /\ localStorage.form # NoItem)
          => formData' = ParseForm(localStorage.form)]_vars

\* back from the provider with the exchange acknowledged: the page shows the
\* profile that was typed before the redirect
C12_SnapshotWitness ==
    /\ page = "onboarding" /\ toast = "connected"
    /\ formData.companyName = "Acme" /\ formData.contactEmail = "a@acme.com"
    /\ localStorage.form = Stringify(formData)

\* C13: once the provision call has returned a response the workflow is
\* complete (keys removed, success reported, /login shown), whatever counts
\* and failures the response reports; when the call is rejected instead, the
\* error is reported and the session keys and the page are kept.
C13_ProvisionResponseCompletes ==
    [][\A i \in DOMAIN inflight :
          (inflight[i].kind = "submit" /\ inflight[i].pc = "prov")
          => /\ SubmitResponse(i, TRUE)
                => (/\ toast' = "ready"
                    /\ page' = "login"
                    /\ localStorage' = EmptyStore)
             /\ SubmitResponse(i, FALSE)
                => (/\ toast' = "cfgfail"
                    /\ page' = page
                    /\ localStorage' = localStorage)]_vars

C13_Witness ==
    /\ page = "login" /\ toast = "ready"
    /\ localStorage = EmptyStore
    /\ inflight = <<>> /\ provIssued = 0

\* the same in the wizard: every response of the provision call, also one
\* that reports undelivered credentials, sets registrationDone; a rejected
\* call leaves the wizard where it was
C13_WizardProvisionCompletes ==
    [][\A data \in ProvisionResults :
          /\ handleProvisionReturns(TRUE, data) => wizard'.registrationDone
          /\ handleProvisionReturns(FALSE, data)
                => (/\ ~wizard'.registrationDone
                    /\ wizard'.step = wizard.step
                    /\ wizard'.companyId = wizard.companyId
                    /\ wizard'.dbConnectionId = wizard.dbConnectionId)]_vars

C13_WizardPartialWitness ==
    /\ wizard.registrationDone
    /\ wizard.toast.kind = "provisioned"
    /\ wizard.toast.sent < wizard.toast.generated

\* C14: a failed policy upload (text or document) does not end the finalize
\* attempt: after the failure the invocation goes on with its next call (the
\* document upload, provisioning) or completes.
C14_PolicyFailureDoesNotBlock ==
    [][\A i \in DOMAIN inflight :
          (inflight[i].pc \in {"text", "doc"} /\ SubmitResponse(i, FALSE))
          => \/ toast' = "ready"
             \/ \E j \in DOMAIN inflight' :
                   /\ inflight'[j].kind = "submit"
                   /\ inflight'[j].pc \in {"doc", "prov"}
                   /\ inflight'[j].gid = inflight[i].gid
                   /\ inflight'[j].dbId = inflight[i].dbId]_vars

\* the same in the wizard: after a failed text policy request the entries
\* after it are still submitted or the step is completed
C14_WizardPolicyFailureDoesNotBlock ==
    [][handleSaveTextPoliciesReturns(FALSE)
        => (wizard'.call.kind = "text" \/ wizard'.step = 2)]_vars

\* C15: the calls of a run that ends in Complete occur in the order
\* registerCompany, initiate, exchange, bindDatabase, provisionCredentials:
\* the redirect and the exchange are only made for a companyId a register
\* call has stored; bindDatabase is only issued for the stored companyId C
\* once the exchange has set the granted flag; provisionCredentials is only
\* issued by the invocation whose bind returned, for its (C, D); and the
\* workflow completes only when that provision call has returned.
C15_HappyPathOrdered ==
    [][/\ Redirected => Truthy(localStorage'.company)
       /\ ExchangeIssued
          => (/\ Truthy(cb'.code)
              /\ Truthy(cb'.company)
              /\ cb'.company = localStorage.company)
       /\ (ClickFinalize /\ Len(inflight') > Len(inflight))
          => LET inv == inflight'[Len(inflight')] IN
             /\ inv.pc = "bind"
             /\ localStorage.google = "true"
             /\ Truthy(inv.gid)
             /\ inv.gid = localStorage.company
       /\ \A i \in DOMAIN inflight :
             (inflight[i].kind = "submit" /\ inflight[i].pc # "bind")
             => (Truthy(inflight[i].gid) /\ Truthy(inflight[i].dbId))
       /\ \A i \in DOMAIN inflight :
             (SubmitResponse(i, TRUE) /\ toast' # "ready")
             => LET inv == inflight'[Len(inflight')] IN
                /\ inflight[i].pc # "prov"
                /\ StageIndex(inv.pc) > StageIndex(inflight[i].pc)
                /\ inv.gid = inflight[i].gid
                /\ Truthy(inv.dbId)
                /\ inflight[i].pc # "bind" => inv.dbId = inflight[i].dbId
       /\ toast' = "ready"
          => \E i \in DOMAIN inflight :
                /\ SubmitResponse(i, TRUE)
                /\ inflight[i].pc = "prov"]_vars

\* the happy path just before its end: one company registered, authorized,
\* database D1 bound for it, the provision call for (C1, D1) awaited
C15_Witness ==
    /\ page = "onboarding" /\ step = 2 /\ googleConnected
    /\ registered = 1 /\ provIssued = 1
    /\ localStorage.company = "C1" /\ localStorage.google = "true"
    /\ globalCompanyId = "C1"
    /\ inflight = <<[kind |-> "submit", pc |-> "prov", live |-> TRUE,
                     cur |-> TRUE, form |-> SubmitView(formData),
                     gid |-> "C1", dbId |-> "D1"]>>

\* C16: "Register here" removes every session key and issues no request (no
\* invocation starts, none proceeds, no exchange starts); the onboarding
\* page it mounts, like every page mounted on an empty store, is at step 1
\* with no companyId and no authorization.
C16_ResetClearsSession ==
    [][/\ RegisterHere
          => (/\ localStorage' = EmptyStore
              /\ Len(inflight') = Len(inflight)
              /\ \A i \in DOMAIN inflight :
                    /\ inflight'[i].kind = inflight[i].kind
                    /\ inflight'[i].pc = inflight[i].pc
              /\ cb' = cb
              /\ page' = "onboarding")
       /\ ((RegisterHere \/ MountStep) /\ localStorage' = EmptyStore
           /\ page' = "onboarding")
          => (/\ step' = 1
              /\ globalCompanyId' = NULL
              /\ ~googleConnected')]_vars

\* after a reset of an authorized session whose finalize attempt was left
\* running: the store is empty, the page is at step 1, the attempt belongs
\* to a session that is over
C16_Witness ==
    /\ page = "onboarding" /\ step = 1 /\ globalCompanyId = NULL
    /\ localStorage = EmptyStore
    /\ Len(inflight) = 1
    /\ inflight[1].kind = "submit" /\ inflight[1].pc = "bind"
    /\ ~inflight[1].live /\ ~inflight[1].cur

C19_BackIsDisplayOnly ==
    [][/\ ClickBack
          => /\ step' < step
             /\ UNCHANGED <<page, localStorage, formData, globalCompanyId,
                            googleConnected, inflight, cb, registered,
                            provIssued>>
       /\ (ClickNext /\ Truthy(globalCompanyId))
          => /\ step' = IF ProfileIncomplete(formData) THEN 1 ELSE 2
             /\ UNCHANGED <<localStorage, globalCompanyId, inflight, cb,
                            registered, provIssued>>
       /\ WizardBack
          => /\ wizard'.step = wizard.step - 1
             /\ wizard'.call = wizard.call
             /\ wizard'.companyId = wizard.companyId
             /\ wizard'.dbConnectionId = wizard.dbConnectionId
       /\ (handleRegisterCompany /\ Truthy(wizard.companyId))
          => wizard'.call.kind # "register"]_vars

\* C19 on the two-step page alone: Back changes the step only, and Next
\* with the companyId held goes to step 2 (the profile fields being filled)
\* without a request or a store write.
C19_TwoStepBackDisplayOnly ==
    [][/\ ClickBack
          => /\ step = 2 /\ step' = 1
             /\ UNCHANGED <<page, localStorage, formData, globalCompanyId,
                            googleConnected, inflight, cb, registered,
                            provIssued>>
       /\ (ClickNext /\ Truthy(globalCompanyId))
          => /\ step' = IF ProfileIncomplete(formData) THEN 1 ELSE 2
             /\ UNCHANGED <<localStorage, globalCompanyId, inflight, cb,
                            registered, provIssued>>]_vars

\* back on the first screen of the authorized session, the id still held
C19_TwoStepWitness ==
    /\ page = "onboarding" /\ step = 1 /\ googleConnected
    /\ Truthy(globalCompanyId)
    /\ localStorage.company = globalCompanyId
    /\ registered = 1

\* the wizard back on Company Details with the companyId of the register
\* call it already made
C19_WizardBackWitness ==
    /\ wizard.step = 0 /\ Truthy(wizard.companyId)
    /\ wizard.call = NoCall

\* C20: an onboarding page mounted on a store that holds a companyId but
\* not the granted flag resumes at the authorization step: step 2, the
\* stored companyId in memory, not authorized.
C20_RecoversFromDurableFields ==
    [][(MountStep /\ page' = "onboarding"
                  /\ Truthy(localStorage'.company)
                  /\ localStorage'.google # "true")
        => (/\ step' = 2
            /\ globalCompanyId' = localStorage'.company
            /\ ~googleConnected')]_vars

\* what the restore effect does in that case: the stored id stays in the
\* store and the page starts at step 1 without it
C20_RemountRestartsAtProfile ==
    [][(MountStep /\ page' = "onboarding"
                  /\ Truthy(localStorage'.company)
                  /\ localStorage'.google # "true")
        => (/\ step' = 1
            /\ globalCompanyId' = NULL
            /\ ~googleConnected'
            /\ localStorage'.company = localStorage.company)]_vars

C20_RemountWitness ==
    /\ page = "onboarding" /\ step = 1 /\ globalCompanyId = NULL
    /\ Truthy(localStorage.company) /\ localStorage.google # "true"
    /\ inflight = <<>> /\ registered = 1

\* C21: a provisioning request carries the database id that the bind call
\* of the same finalize attempt returned, and no other attempt of the
\* session runs beside it: the id is that of the session's most recent
\* successful bind, never one left by an earlier attempt.
C21_ProvisionUsesLatestBind ==
    \A i \in DOMAIN inflight :
       (inflight[i].kind = "submit" /\ inflight[i].pc = "prov")
          => /\ Truthy(inflight[i].dbId)
             /\ Truthy(inflight[i].gid)
             /\ inflight[i].cur
                  => \A j \in DOMAIN inflight \ {i} :
                        ~(inflight[j].kind = "submit" /\ inflight[j].cur)

\* the second provisioning request of a session: the first attempt bound a
\* database and its provisioning call failed, the second attempt bound
\* again and provisions with the id of its own bind
C21_Witness ==
    /\ provIssued = 2
    /\ Len(inflight) = 1
    /\ inflight[1].kind = "submit" /\ inflight[1].pc = "prov"
    /\ inflight[1].cur /\ inflight[1].live
    /\ Truthy(inflight[1].dbId)

\* C21 in the wizard: the provisioning request carries the companyId and
\* the database id held by the page, which the one successful connect call
\* of the page returned.
C21_WizardProvisionUsesBoundId ==
    wizard.call.kind = "provision"
        => /\ Truthy(wizard.call.dbId)
           /\ wizard.call.dbId = wizard.dbConnectionId
           /\ wizard.call.companyId = wizard.companyId

C21_WizardWitness ==
    /\ wizard.call.kind = "provision"
    /\ wizard.call.dbId = wizard.dbConnectionId
    /\ wizard.toast.kind = "none"

\* C22: when the bind call is rejected the attempt ends there: no call of
\* it follows (no second bind, no provisioning request), the failure is
\* reported, the step and the session stay as they were, and the Finalize
\* button of the page that started the attempt is enabled again.
C22_BindRejectedEndsAttempt ==
    [][\A i \in DOMAIN inflight :
          (inflight[i].pc = "bind" /\ SubmitResponse(i, FALSE))
          => /\ inflight' = RemoveAt(inflight, i)
             /\ toast' = "cfgfail"
             /\ inflight[i].live => ~isLoading'
             /\ UNCHANGED <<page, localStorage, step, formData,
                            globalCompanyId, googleConnected, provIssued,
                            cb>>]_vars

\* after a rejected bind of an attempt that had nothing but the database to
\* send: still at step 2 of the authorized session, nothing in flight, no
\* provisioning request issued
C22_Witness ==
    /\ page = "onboarding" /\ toast = "cfgfail"
    /\ step = 2 /\ googleConnected /\ ~isLoading
    /\ inflight = <<>> /\ provIssued = 0
    /\ formData.policiesText = "" /\ formData.policyFile = NULL
    /\ localStorage.company = globalCompanyId
    /\ localStorage.google = "true"

\* C22 in the wizard: a rejected connect call leaves the page at the
\* Database step with no call running and no database id
C22_WizardConnectRejected ==
    [][handleConnectDBReturns(FALSE)
        => /\ wizard'.call = NoCall
           /\ wizard'.toast.kind = "connfail"
           /\ ~wizard'.loading
           /\ wizard'.step = wizard.step
           /\ wizard'.companyId = wizard.companyId
           /\ wizard'.dbConnectionId = wizard.dbConnectionId]_vars

C22_WizardWitness ==
    /\ wizard.step = 3 /\ wizard.toast.kind = "connfail"
    /\ wizard.call = NoCall /\ wizard.dbConnectionId = ""

\* the wizard `after` a step of the save loop over `entries`: a request is
\* in flight for the first entry that has a title and a content, every
\* entry before it having been passed over, or no entry has both and the
\* step is completed
SkippedAndSent(entries, after) ==
    \/ \E k \in DOMAIN entries :
          /\ entries[k].title # "" /\ entries[k].content # ""
          /\ \A m \in 1..(k - 1) :
                entries[m].title = "" \/ entries[m].content = ""
          /\ after.call.kind = "text"
          /\ after.call.sent = <<entries[k].title, entries[k].content>>
          /\ Len(after.call.policies) = Len(entries) - k
    \/ /\ \A k \in DOMAIN entries :
             entries[k].title = "" \/ entries[k].content = ""
       /\ after.call = NoCall
       /\ after.toast.kind = "saved"
       /\ after.step = 2

\* C23: the wizard sends a text policy request only for an entry with a
\* title and a content; an entry without one of them is passed over, the
\* entries after it are still sent, and when nothing is left to send the
\* step completes.
C23_IncompleteEntrySkipped ==
    [][/\ wizard'.call.kind = "text"
          => (wizard'.call.sent[1] # "" /\ wizard'.call.sent[2] # "")
       /\ handleSaveTextPolicies
          => SkippedAndSent(wizard.textPolicies, wizard')
       /\ handleSaveTextPoliciesReturns(TRUE)
          => SkippedAndSent(wizard.call.policies, wizard')]_vars

\* the request in flight is that of the second entry, the first one having
\* a title but no content
C23_Witness ==
    /\ wizard.call.kind = "text"
    /\ Len(wizard.textPolicies) = 2
    /\ wizard.textPolicies[1] = [title |-> "T", content |-> ""]
    /\ wizard.call.sent = <<wizard.textPolicies[2].title,
                            wizard.textPolicies[2].content>>
    /\ wizard.call.policies = <<>>

\* C23 on the two-step page: a policy text that is empty or blank is not
\* sent, and the attempt goes on to its other calls
C23_TwoStepBlankTextSkipped ==
    \A i \in DOMAIN inflight :
       inflight[i].kind = "submit"
          => /\ inflight[i].pc = "text"
                  => Trim(inflight[i].form.policiesText) # ""
             /\ Trim(inflight[i].form.policiesText) = ""
                  => inflight[i].pc \in {"bind", "doc", "prov"}

C23_TwoStepWitness ==
    \E i \in DOMAIN inflight :
       /\ inflight[i].kind = "submit" /\ inflight[i].pc = "prov"
       /\ inflight[i].form.policiesText = " "
       /\ inflight[i].form.policyFile = NULL

\* C24: the session keys are removed when a finalize attempt succeeds, and
\* only then or by "Register here"; a failing call of a finalize attempt
\* leaves every key as it is, and while an attempt of the session runs no
\* key changes otherwise, so that after the failure the keys are those of
\* before the attempt.
C24_KeysRemovedOnlyAtComplete ==
    [][/\ toast' = "ready" => localStorage' = EmptyStore
       /\ \A i \in DOMAIN inflight :
             /\ SubmitResponse(i, FALSE) => localStorage' = localStorage
             /\ (inflight[i].kind = "submit" /\ inflight[i].cur)
                  => \/ localStorage' = localStorage
                     \/ toast' = "ready"
                     \/ RegisterHere
       /\ (\E key \in DOMAIN localStorage :
              localStorage[key] # EmptyStore[key]
              /\ localStorage'[key] = EmptyStore[key])
          => (toast' = "ready" \/ RegisterHere)]_vars

\* after the provisioning call of an attempt failed: the failure is
\* reported and the keys of the authorized session are all there
C24_Witness ==
    /\ page = "onboarding" /\ toast = "cfgfail"
    /\ provIssued = 1 /\ inflight = <<>>
    /\ Truthy(localStorage.company)
    /\ localStorage.company = globalCompanyId
    /\ localStorage.google = "true"
    /\ localStorage.form # EmptyStore.form

\* C25: a rejected register call changes nothing but the message shown
\* and the loading flag: step, in-memory companyId and every session key
\* are as before, and the page that made the call is still at step 1
\* without a companyId.
C25_FailedRegisterMutatesNothing ==
    [][\A i \in DOMAIN inflight :
          RegisterResponse(i, FALSE)
          => /\ toast' = "regfail"
             /\ inflight' = RemoveAt(inflight, i)
             /\ UNCHANGED <<page, localStorage, step, formData,
                            globalCompanyId, googleConnected, cb>>
             /\ inflight[i].live
                  => (step' = 1 /\ globalCompanyId' = NULL /\ ~isLoading')]_vars

\* after the first register call of a session was rejected
C25_Witness ==
    /\ page = "onboarding" /\ toast = "regfail"
    /\ step = 1 /\ globalCompanyId = NULL /\ ~isLoading
    /\ localStorage = EmptyStore
    /\ inflight = <<>> /\ registered = 0
    /\ ~ProfileIncomplete(formData)

\* C25 in the wizard: a rejected register call leaves step and companyId
C25_WizardFailedRegister ==
    [][handleRegisterCompanyReturns(FALSE)
        => /\ wizard'.toast.kind = "regfail"
           /\ wizard'.call = NoCall
           /\ wizard'.step = wizard.step
           /\ wizard'.companyId = wizard.companyId]_vars

C25_WizardWitness ==
    /\ wizard.step = 0 /\ wizard.toast.kind = "regfail"
    /\ wizard.companyId = "" /\ wizard.call = NoCall

\* a step in which a handler of the wizard ends with all its requests
\* answered successfully (or with none to make)
WizardHandlerSucceeded ==
    \/ handleRegisterCompanyReturns(TRUE)
    \/ (handleSaveTextPolicies \/ handleSaveTextPoliciesReturns(TRUE))
          /\ wizard'.toast.kind = "saved"
    \/ (handleUploadDocs \/ handleUploadDocsReturns(TRUE))
          /\ wizard'.toast.kind = "uploaded"
    \/ handleConnectDBReturns(TRUE)

\* C26: the step index of the wizard increases only at the end of a handler
\* whose requests all succeeded, by exactly one, and the Provision step is
\* shown only with a database connection id stored.
C26_StepAdvancesByOne ==
    [][/\ wizard'.step > wizard.step
          => /\ WizardHandlerSucceeded
             /\ wizard'.call = NoCall
             /\ wizard'.step = wizard.step + 1
       /\ wizard'.step = 4 => wizard'.dbConnectionId # ""]_vars

\* what holds of C26: the step index increases only at the end of a handler
\* whose requests all succeeded, to the index after the step the handler
\* belongs to, and the Provision step is shown only with a database
\* connection id stored
C26_StepSetAfterSuccess ==
    [][/\ wizard'.step > wizard.step
          => /\ WizardHandlerSucceeded
             /\ wizard'.call = NoCall
             /\ handleRegisterCompanyReturns(TRUE) => wizard'.step = 1
             /\ wizard'.toast.kind = "saved" => wizard'.step = 2
             /\ wizard'.toast.kind = "uploaded" => wizard'.step = 3
             /\ handleConnectDBReturns(TRUE) => wizard'.step = 4
       /\ wizard'.step = 4 => wizard'.dbConnectionId # ""]_vars

\* Back was clicked while the text policy request was pending: the page
\* shows Company Details, the handler of Text Policies is still running
C26_BackWhilePendingWitness ==
    /\ wizard.step = 0 /\ wizard.call.kind = "text" /\ wizard.loading

C27_UnauthorizedStepWitness ==
    /\ page = "onboarding" /\ step = 2 /\ ~googleConnected
    /\ Truthy(globalCompanyId) /\ inflight = <<>>
    /\ ~ENABLED ClickFinalize

\* C28: the exchange request is issued only by a callback that carries a
\* code and no error indicator while the store holds a companyId, and it
\* carries that code and that stored companyId; every other callback, and
\* a failed exchange, leave the store as it is and end on the onboarding
\* page.
C28_ExchangeOnlyWithContext ==
    [][/\ ExchangeIssued
          => \E code \in CodeVals, error \in ErrorVals :
                /\ ArriveCallback(code, error)
                /\ Truthy(code) /\ ~Truthy(error)
                /\ Truthy(localStorage.company)
                /\ cb'.code = code
                /\ cb'.company = localStorage.company
       /\ \A code \in CodeVals, error \in ErrorVals :
             (ArriveCallback(code, error)
                /\ (~Truthy(code) \/ Truthy(error)
                       \/ ~Truthy(localStorage.company)))
             => /\ ~ExchangeIssued
                /\ localStorage' = localStorage
                /\ page' = "onboarding"
                /\ toast' \in {"denied", "nocode", "lostctx"}
       /\ ExchangeResponse(FALSE)
          => /\ localStorage' = localStorage
             /\ page' = "onboarding"
             /\ toast' = "exchfail"]_vars

\* after a failed exchange for the stored companyId: back on the
\* onboarding page, the store without the granted flag
C28_Witness ==
    /\ page = "onboarding" /\ toast = "exchfail"
    /\ cb = NoCallback
    /\ Truthy(localStorage.company)
    /\ localStorage.google # "true"
    /\ ~googleConnected

\* the place of a call in the order bindDatabase, addPolicyText,
\* addPolicyDocument, provisionCredentials
CallRank(pc) ==
    CASE pc = "bind" -> 1
      [] pc = "text" -> 2
      [] pc = "doc" -> 3
      [] pc = "prov" -> 4
      [] OTHER -> 0

\* C29: an attempt begins with its bind call; when a call of it returns
\* successfully the attempt either completes or issues one call that comes
\* later in the order bind, text, document, provision; when a call fails
\* the attempt ends and issues nothing more.
C29_CallsInOrder ==
    [][/\ (ClickFinalize /\ inflight' # inflight)
          => /\ inflight' = Append(inflight, inflight'[Len(inflight')])
             /\ inflight'[Len(inflight')].kind = "submit"
             /\ inflight'[Len(inflight')].pc = "bind"
             /\ inflight'[Len(inflight')].dbId = NULL
       /\ \A i \in DOMAIN inflight :
             /\ SubmitResponse(i, FALSE)
                  => inflight' = RemoveAt(inflight, i)
             /\ SubmitResponse(i, TRUE)
                  => \/ toast' = "ready"
                     \/ /\ Len(inflight') = Len(inflight)
                        /\ SubSeq(inflight', 1, Len(inflight') - 1)
                              = RemoveAt(inflight, i)
                        /\ LET n == inflight'[Len(inflight')] IN
                              /\ n.kind = "submit"
                              /\ n.gid = inflight[i].gid
                              /\ n.form = inflight[i].form
                              /\ CallRank(n.pc) > CallRank(inflight[i].pc)
                              /\ n.pc = "prov" => Truthy(n.dbId)]_vars

\* a retry: the first attempt of the session ended when its provisioning
\* call failed, the second attempt is at its bind call
C29_Witness ==
    /\ provIssued = 1 /\ toast = "none"
    /\ Len(inflight) = 1
    /\ inflight[1].kind = "submit" /\ inflight[1].pc = "bind"
    /\ inflight[1].cur /\ inflight[1].live
    /\ inflight[1].dbId = NULL

\* the requests of a list, as a set
Listed(requests) == {requests[k] : k \in DOMAIN requests}

\* C30: once the list is loaded and no decide request is pending, the
\* pending list holds exactly the fetched requests whose decision has not
\* succeeded.
C30_PendingIsUndecided ==
    (approvals.fetch = "done" /\ approvals.calls = <<>>)
        => /\ Listed(approvals.pendingRequests)
                = Listed(approvals.fetched) \ approvals.succeeded
           /\ Len(approvals.pendingRequests)
                = Cardinality(Listed(approvals.pendingRequests))

\* C30 as long as a single decision has been made: its answer leaves the
\* list right, whether it succeeded or was rolled back
C30_OneAtATime ==
    (approvals.fetch = "done" /\ approvals.calls = <<>>
       /\ approvals.decisions <= 1)
        => Listed(approvals.pendingRequests)
              = Listed(approvals.fetched) \ approvals.succeeded

\* a decision failed and was rolled back with nothing else pending
C30_RollbackWitness ==
    /\ approvals.fetch = "done" /\ approvals.calls = <<>>
    /\ approvals.toast = "decidefail"
    /\ approvals.pendingRequests = approvals.fetched
    /\ approvals.fetched = RequestIds

====
